---- MODULE Spec2Model ----
(***************************************************************************)
(* Cache-aware inference layer and metric engines of the cheminformatics   *)
(* benchmark (benchmark/cuchembm/metrics): the sampling metrics, the       *)
(* nearest neighbor correlation, the grid search of Modelability, and the  *)
(* driver's loop over the variations of a metric and its output files      *)
(* (benchmark/chembench/__main__.py), and the molecule utilities           *)
(* (benchmark/cuchembench/utils/smiles.py).                                *)
(*                                                                         *)
(* Each part has its own specification over the shared variables: Spec,    *)
(* SpecFrame and SpecRace (the cache-then-client request, alone and in two *)
(* interleaved runs), SpecMetric, SpecFault and SpecLive (a sampling       *)
(* metric over a healthy, a failing and a stalling inferrer), SpecNN,      *)
(* SpecGrid and SpecModelability, SpecDriver and SpecSink, SpecSmiles.     *)
(*                                                                         *)
(* An optional value (what a cache fetch returns) is a sequence of length  *)
(* 0 (nothing) or 1 (the value).  A metric value is kept as the exact      *)
(* fraction num/den that the code divides; den = 0 is the NaN/inf case.    *)
(* The cache store and the inferrer are collaborators given by their       *)
(* contracts: the cache by fetch/insert (an insert under a present         *)
(* fingerprint is a no-op or an overwrite, fixed per behaviour), the       *)
(* inferrer by the SampleResult / EmbeddingResult it returns.              *)
(***************************************************************************)
EXTENDS Integers, Sequences, FiniteSets, TLC

\* ---------------------------------------------------------------- bounds
MaxSamples == 2
MaxDataset == 2
MaxCalls == 2
MaxSeqLen == 2
MaxRuns == 1
MaxSweep == 2
MaxGrid == 2
MaxMse == 2
MaxSearches == 4
MaxRows == 3
MaxBits == 2

\* ------------------------------------------------------------ input sets
InferrerName == "MegaMolBART"
InputSmiles == {"CCO", "CCC"}
GeneratedSmiles == {"CCC", "invalid_string"}
ParsableSmiles == {"CCO", "CCC"}
TrainingSmiles == {"CCC"}
Radii == {1, 2}
RequestRadii == {1}
SampleCounts == 0..MaxSamples
SeqLens == 1..MaxSeqLen
HiddenSize == 4
InsertPolicies == {"noop", "overwrite"}
EmbeddingRanks == {1, 2}
MetricNames == {"validity", "unique", "novelty"}

None == <<>>
Some(v) == <<v>>

RECURSIVE SeqsUpTo(_, _)
SeqsUpTo(S, n) ==
    IF n = 0 THEN {<<>>}
    ELSE LET shorter == SeqsUpTo(S, n - 1)
         IN  shorter \cup {Append(s, x) : s \in {t \in shorter : Len(t) = n - 1}, x \in S}

Datasets == SeqsUpTo(InputSmiles, MaxDataset)

\* the radius lists a sampling metric can be configured with (cfg.metric.<name>.radius)
RadiusLists == SeqsUpTo(Radii, MaxSweep)

\* the top_k a nearest neighbor correlation can be asked for: unspecified, or an integer
TopKs == {None} \cup {Some(k) : k \in 0..MaxDataset}

\* the estimator families of get_model_dict (two of the four)
ModelNames == {"elastic_net", "random_forest"}

\* ParameterGrid(param_dict): the combinations, numbered in grid order
Grid == 1..MaxGrid

\* the arrays a grid search is run on
XData == {"embeddings", "fingerprints"}

\* what cross-validating one combination gives: estimator.fit raises (nothing), or
\* the mean squared error averaged over the folds
CvOutcomes == {None} \cup {Some(mse) : mse \in 0..MaxMse}

\* np.inf: above every score
Inf == MaxMse + 1

\* a per-row rank correlation: undefined (NaN), or a value of [-1, 1] (here -1, 0 and 1)
CorrValues == {None} \cup {Some(v) : v \in {-1, 0, 1}}

VARIABLES
    insert_policy,    \* what the cache does with an insert under a present key
    embedding_rank,   \* length of the shape descriptor the inferrer's embeddings have
    sample_cache,     \* sampling namespace: request key -> list of molecule strings
    embedding_cache,  \* embedding namespace: key -> [embedding, dim]
    sample_calls,     \* sampling request -> number of inferrer.find_similars_smiles calls
    embed_calls,      \* <<smiles, max_seq_len>> -> number of inferrer.smiles_to_embedding calls
    last,             \* the last cache-then-client request and what it returned
    pc,               \* position of the metric computation: idle, sampling, done
    dataset,          \* the molecules of the dataset the metric object was built with
    run,              \* the metric and the arguments of the calculate call in progress
    metric_array,     \* per-molecule counts collected by sample_many
    result,           \* the record calculate returned
    runs,             \* number of calculate calls the driver has made
    sweep,            \* the configuration the driver runs one metric with
    records,          \* the rows appended to the metric's output file
    embeddings,       \* the embeddings encode_many has collected
    corr_call,        \* the spearmanr call of the run: the top_k passed, the rows returned
    model_name,       \* the estimator family of the Modelability variation
    cv_outcome,       \* <<xdata, param>> -> what fitting and scoring that combination gives
    estimator,        \* the estimator object: the parameters set, what it was last fitted on
    kfold_calls,      \* number of KFold generators constructed so far
    search,           \* the gpu_gridsearch_cv call in progress
    searches,         \* the gpu_gridsearch_cv calls that returned, with what they returned
    inferrer_faults,  \* molecule -> what a call of the inference client for it does
    csv_exists,       \* whether the metric's CSV file exists
    csv_header_at,    \* the number of rows the CSV file held each time a header line was written
    pickle_file,      \* the metric's pickle file: absent, or the rows of the frame it holds
    smiles_call,      \* the last call of a molecule utility of smiles.py and what it returned
    modelability,     \* how the Modelability object was built, and the shape of its dataset
    workers           \* benchmark run -> where it is in _find_similars_smiles, and its locals

\* fixed for a whole behaviour: the cache implementation, the inferrer, the dataset
setup == <<insert_policy, embedding_rank, dataset, sweep, model_name, cv_outcome,
           inferrer_faults, modelability>>

\* what only the benchmark driver writes
driver_state == <<records, csv_exists, csv_header_at, pickle_file>>

\* what only dataset preparation writes
prep_state == <<smiles_call>>

\* what only benchmark runs that share the cache store with one another write
race_state == <<workers>>

\* what only the embedding metrics write
embedding_state == <<embeddings, corr_call>>

\* what only the grid search of Modelability writes
grid_state == <<estimator, kfold_calls, search, searches>>

vars == <<insert_policy, embedding_rank, sample_cache, embedding_cache, sample_calls, embed_calls,
          last, pc, dataset, run, metric_array, result, runs, sweep, records,
          embeddings, corr_call, model_name, cv_outcome, estimator, kfold_calls, search, searches,
          inferrer_faults, csv_exists, csv_header_at, pickle_file, smiles_call,
          modelability, workers>>

\* ------------------------------------------------------------ Result Cache
Fetch(cache, key) ==
    IF key \in DOMAIN cache THEN Some(cache[key]) ELSE None

\* an insert under a present key that keeps the old row next to the new one
Insert_KeepBoth(cache, key, value) ==
    [k \in DOMAIN cache \cup {key} |->
        IF k = key THEN (IF key \in DOMAIN cache THEN <<cache[key], value>> ELSE value)
        ELSE cache[k]]

Insert(cache, key, value) ==
    IF key \in DOMAIN cache /\ insert_policy = "noop"
    THEN cache
    ELSE [k \in DOMAIN cache \cup {key} |-> IF k = key THEN value ELSE cache[k]]

\* --------------------------------------------------------- Inference Client
\* find_similar(molecule, n, ...): the input molecule followed by n generated candidates
ClientSampleResults(smiles, num_samples) ==
    {<<smiles>> \o c : c \in {g \in SeqsUpTo(GeneratedSmiles, num_samples) :
                                  Len(g) = num_samples}}

\* embed(molecule, max_len): one tensor (named by what it was computed from) and its
\* shape: a pooled vector, or one row per sequence position
ClientEmbeddingResult(smiles, max_seq_len) ==
    [embedding |-> <<smiles, max_seq_len>>,
     dim |-> IF embedding_rank = 1 THEN <<HiddenSize>> ELSE <<max_seq_len, HiddenSize>>]

\* what a call of the inference client can do: return its result, raise (a remote
\* call error, a timeout), or never return
ClientBehaviours == {"returns", "raises", "stalls"}

\* an inference service that answers every call
Healthy == [smiles \in InputSmiles |-> "returns"]

\* ------------------------------------------------ BaseSampleMetric (sampling.py)
FetchSamplingKey(model, smiles, num_samples, scaled_radius, force_unique, sanitize) ==
    <<model, smiles, num_samples, scaled_radius, force_unique, sanitize>>

\* the insert call with num_samples and scaled_radius in each other's place
InsertSamplingKey_Swapped(model, smiles, num_samples, scaled_radius, force_unique, sanitize) ==
    <<model, smiles, scaled_radius, num_samples, force_unique, sanitize>>

\* the insert call with the two flags left at their defaults
InsertSamplingKey_NoFlags(model, smiles, num_samples, scaled_radius, force_unique, sanitize) ==
    <<model, smiles, num_samples, scaled_radius, FALSE, FALSE>>

InsertSamplingKey(model, smiles, num_samples, scaled_radius, force_unique, sanitize) ==
    <<model, smiles, num_samples, scaled_radius, force_unique, sanitize>>

\* `if not generated_smiles`: nothing fetched, or an empty list
NeedSampling(fetched) ==
    fetched = None \/ fetched[1] = <<>>

\* the commented-out filter `result[result.Generated == True]` applied: input removed
GeneratedList_InputRemoved(client_result) == Tail(client_result)

\* generated_smiles = result['SMILES'].to_list()
GeneratedList(client_result) == client_result

\* a handler around the client call that stores an empty result for the request
ClientRaised_InsertsEmpty(cache, key) == Insert(cache, key, <<>>)

\* the client call raised: the exception leaves the function at the call, before
\* the insert statement below it is reached
ClientRaised(cache, key) == cache

TotalCalls ==
    LET RECURSIVE SumOver(_, _)
        SumOver(f, D) == IF D = {} THEN 0
                         ELSE LET k == CHOOSE x \in D : TRUE
                              IN  f[k] + SumOver(f, D \ {k})
    IN  SumOver(sample_calls, DOMAIN sample_calls) + SumOver(embed_calls, DOMAIN embed_calls)

Bump(calls, key) ==
    [k \in DOMAIN calls \cup {key} |->
        IF k = key THEN (IF key \in DOMAIN calls THEN calls[key] + 1 ELSE 1) ELSE calls[k]]

\* _find_similars_smiles: fetch, and on a miss call the client and insert.  The
\* sampling namespace is read back as the list of molecule strings only.
find_similars_smiles(smiles, num_samples, scaled_radius, force_unique, sanitize) ==
    LET fkey == FetchSamplingKey(InferrerName, smiles, num_samples, scaled_radius,
                                 force_unique, sanitize)
        ikey == InsertSamplingKey(InferrerName, smiles, num_samples, scaled_radius,
                                  force_unique, sanitize)
        fetched == Fetch(sample_cache, fkey)
    IN  IF NeedSampling(fetched)
        THEN /\ TotalCalls < MaxCalls
             /\ inferrer_faults[smiles] # "stalls"
             /\ IF inferrer_faults[smiles] = "raises"
                THEN /\ sample_cache' = ClientRaised(sample_cache, ikey)
                     /\ last' = [op |-> "find_similars_smiles", key |-> fkey,
                                 path |-> "error", present |-> fetched # None, ret |-> <<>>]
                ELSE \E client_result \in ClientSampleResults(smiles, num_samples) :
                        /\ sample_cache' = Insert(sample_cache, ikey,
                                                  GeneratedList(client_result))
                        /\ last' = [op |-> "find_similars_smiles", key |-> fkey,
                                    path |-> "miss", present |-> fetched # None,
                                    ret |-> GeneratedList(client_result)]
             /\ sample_calls' = Bump(sample_calls, fkey)
        ELSE /\ sample_cache' = sample_cache
             /\ sample_calls' = sample_calls
             /\ last' = [op |-> "find_similars_smiles", key |-> fkey, path |-> "hit",
                         present |-> TRUE, ret |-> fetched[1]]

\* the benchmark runs that share one cache store
Runs == {1, 2}

\* a run that has not entered _find_similars_smiles yet
NoRequest == [pc |-> "enter", key |-> <<>>, fetched |-> None, generated_smiles |-> None,
              ret |-> None]

\* the function returning what the cache holds under the key after its insert
Returned_FromCache(cache, key, generated_smiles) == cache[key]

\* `return generated_smiles`: the local variable, not what the cache holds
Returned(cache, key, generated_smiles) == generated_smiles

\* _find_similars_smiles of run w up to the return of fetch_sampling_data
RaceFetch(w, smiles) ==
    LET fkey == FetchSamplingKey(InferrerName, smiles, 1, 1, FALSE, FALSE)
        fetched == Fetch(sample_cache, fkey)
    IN  /\ workers[w].pc = "enter"
        /\ workers' = [workers EXCEPT ![w] =
               [pc |-> IF NeedSampling(fetched) THEN "sample" ELSE "return",
                key |-> fkey, fetched |-> fetched,
                generated_smiles |-> IF NeedSampling(fetched) THEN None ELSE fetched,
                ret |-> None]]
        /\ UNCHANGED <<sample_cache, sample_calls>>

\* the call of the inference client of run w
RaceSample(w) ==
    /\ workers[w].pc = "sample"
    /\ \E client_result \in ClientSampleResults(workers[w].key[2], workers[w].key[3]) :
          workers' = [workers EXCEPT ![w].pc = "insert",
                                     ![w].generated_smiles = Some(GeneratedList(client_result))]
    /\ sample_calls' = Bump(sample_calls, workers[w].key)
    /\ UNCHANGED sample_cache

\* the insert_sampling_data call of run w
RaceInsert(w) ==
    /\ workers[w].pc = "insert"
    /\ sample_cache' = Insert(sample_cache,
                              InsertSamplingKey(InferrerName, workers[w].key[2],
                                                workers[w].key[3], workers[w].key[4],
                                                workers[w].key[5], workers[w].key[6]),
                              workers[w].generated_smiles[1])
    /\ workers' = [workers EXCEPT ![w].pc = "return"]
    /\ UNCHANGED sample_calls

\* run w returns from _find_similars_smiles
RaceReturn(w) ==
    /\ workers[w].pc = "return"
    /\ workers' = [workers EXCEPT
           ![w].pc = "done",
           ![w].ret = Some(Returned(sample_cache, workers[w].key,
                                    workers[w].generated_smiles[1]))]
    /\ UNCHANGED <<sample_cache, sample_calls>>

\* ---------------------------------------------- BaseEmbeddingMetric (embedding.py)
\* fetch_embedding_data(smiles) / insert_embedding_data(smiles, ...): max_seq_len is not passed
EmbeddingKey(smiles, max_seq_len) == smiles

\* `if not embedding_results or len(embedding_results[1]) == 1`
NeedEmbedding(fetched) ==
    fetched = None \/ Len(fetched[1].dim) = 1

find_embedding(smiles, max_seq_len) ==
    LET key == EmbeddingKey(smiles, max_seq_len)
        fetched == Fetch(embedding_cache, key)
    IN  IF NeedEmbedding(fetched)
        THEN /\ TotalCalls < MaxCalls
             /\ inferrer_faults[smiles] # "stalls"
             /\ IF inferrer_faults[smiles] = "raises"
                THEN /\ embedding_cache' = ClientRaised(embedding_cache, key)
                     /\ last' = [op |-> "find_embedding", key |-> <<smiles, max_seq_len>>,
                                 path |-> "error", present |-> fetched # None, ret |-> <<>>]
                ELSE LET embedding_results == ClientEmbeddingResult(smiles, max_seq_len)
                     IN /\ embedding_cache' = Insert(embedding_cache, key, embedding_results)
                        /\ last' = [op |-> "find_embedding",
                                    key |-> <<smiles, max_seq_len>>,
                                    path |-> "miss", present |-> fetched # None,
                                    ret |-> embedding_results]
             /\ embed_calls' = Bump(embed_calls, <<smiles, max_seq_len>>)
        ELSE /\ embedding_cache' = embedding_cache
             /\ embed_calls' = embed_calls
             /\ last' = [op |-> "find_embedding", key |-> <<smiles, max_seq_len>>,
                         path |-> "hit", present |-> TRUE, ret |-> fetched[1]]


\* ------------------------------------------------- metric reductions (sampling.py)
\* the parsable strings counted once each, however often they were generated
ValiditySample_Distinct(generated_smiles) ==
    Cardinality({generated_smiles[i] : i \in 2..Len(generated_smiles)} \cap ParsableSmiles)

\* Validity.sample: entries after the first that Chem.MolFromSmiles parses
ValiditySample(generated_smiles) ==
    Cardinality({i \in 2..Len(generated_smiles) : generated_smiles[i] \in ParsableSmiles})

\* the set taken over the whole list, the input molecule included
UniqueSample_WholeList(generated_smiles) ==
    Cardinality({generated_smiles[i] : i \in 1..Len(generated_smiles)})

\* the distinct strings among the candidates that parse
UniqueSample_ValidOnly(generated_smiles) ==
    Cardinality({generated_smiles[i] : i \in 2..Len(generated_smiles)} \cap ParsableSmiles)

\* Unique.sample: len(set(generated_smiles[1:]))
UniqueSample(generated_smiles) ==
    Cardinality({generated_smiles[i] : i \in 2..Len(generated_smiles)})

\* Novelty.sample: sum of is_known_smiles over every entry of generated_smiles
NoveltySample(generated_smiles) ==
    Cardinality({i \in 1..Len(generated_smiles) : generated_smiles[i] \in TrainingSmiles})

Sample(name, generated_smiles) ==
    CASE name = "validity" -> ValiditySample(generated_smiles)
      [] name = "unique" -> UniqueSample(generated_smiles)
      [] name = "novelty" -> NoveltySample(generated_smiles)

RECURSIVE NanSum(_)
NanSum(metric_array_) ==
    IF metric_array_ = <<>> THEN 0 ELSE Head(metric_array_) + NanSum(Tail(metric_array_))

\* a per-molecule average over the molecules that produced something
CalculateMetric_NonZeroOnly(metric_array_, num_samples) ==
    [num |-> NanSum(metric_array_),
     den |-> Cardinality({i \in 1..Len(metric_array_) : metric_array_[i] > 0}) * num_samples]

\* _calculate_metric: np.nansum(metric_array) / float(len(metric_array) * num_samples)
CalculateMetric(metric_array_, num_samples) ==
    [num |-> NanSum(metric_array_), den |-> Len(metric_array_) * num_samples]

\* ------------------------------------------------------------------ actions
NoRun == [name |-> "none", radius |-> 0, num_samples |-> 0]
NoResult == [name |-> "none", num |-> 0, den |-> 0, radius |-> 0, num_samples |-> 0]
NoLast == [op |-> "none", key |-> <<>>, path |-> "none", present |-> FALSE, ret |-> <<>>]
NoSweep == [name |-> "none", num_samples |-> 0, radius_list |-> <<>>]
NoCorr == [top_k |-> None, rows |-> <<>>]
NoSearch == [xdata |-> "none", ydata |-> "none", estimator |-> "none", param_dict |-> {},
             index |-> 0, best_score |-> Inf, best_param |-> None, best_pred |-> None,
             splits |-> <<>>]
NewEstimator == [params |-> None, fitted |-> None, rows |-> "none"]

\* Modelability(...) with its defaults over a dataset with one property column and
\* one fingerprint and one property value per molecule
PlainModelability ==
    [return_predictions |-> FALSE, normalize_inputs |-> FALSE, property_columns |-> 1,
     rows |-> [embeddings |-> 1, fingerprints |-> 1, properties |-> 1]]

\* ------------------------------------------------- molecule utilities (smiles.py)
\* the strings handed to the utilities: molecules, one of them not in canonical form,
\* a string that is no molecule, and the empty string
SmilesStrings == ParsableSmiles \cup {"OCC", "invalid_string", ""}

\* the fingerprint widths asked for
NBits == 1..MaxBits

\* Chem.MolFromSmiles: nothing for a string that does not parse, a molecule object
\* otherwise; the empty string parses to the molecule without atoms
MolFromSmiles(smiles) ==
    CASE smiles \in {"CCO", "OCC"} -> Some([atoms |-> 3, canonical |-> "CCO", code |-> 0])
      [] smiles = "CCC" -> Some([atoms |-> 3, canonical |-> "CCC", code |-> 1])
      [] smiles = "" -> Some([atoms |-> 0, canonical |-> "", code |-> 0])
      [] OTHER -> None

\* AllChem.GetMorganFingerprintAsBitVect(mol, radius, nBits): the atom environments of
\* the molecule hashed into nbits positions; no atom, no bit
GetMorganFingerprintAsBitVect(mol, nbits) ==
    [i \in 1..nbits |-> IF mol.atoms > 0 /\ i = (mol.code % nbits) + 1 THEN 1 ELSE 0]

\* np.zeros(nbits, dtype=bool)
Zeros(nbits) == [i \in 1..nbits |-> 0]

RECURSIVE RowSum(_)
RowSum(fp) == IF fp = <<>> THEN 0 ELSE Head(fp) + RowSum(Tail(fp))

\* calculate_morgan_fingerprint: one row per string, np.fromstring(...) - ord('0') for a
\* molecule and the zero row for a string that does not parse
calculate_morgan_fingerprint(smiles, nbits) ==
    [i \in 1..Len(smiles) |->
        LET mol == MolFromSmiles(smiles[i])
        IN  IF mol # None THEN GetMorganFingerprintAsBitVect(mol[1], nbits) ELSE Zeros(nbits)]

\* valid_molecule_mask = (fp.sum(axis=1) > 0)
ValidMoleculeMask(smiles, fp) ==
    [i \in 1..Len(fp) |-> RowSum(fp[i]) > 0]

\* calc_morgan_fingerprints: the frame of fingerprints under the index of the
\* dataframe, pruned by the mask when there is an invalid row and remove_invalid is set
calc_morgan_fingerprints(dataframe, remove_invalid, nbits) ==
    LET fp == calculate_morgan_fingerprint(dataframe, nbits)
        valid_molecule_mask == ValidMoleculeMask(dataframe, fp)
        num_invalid_molecules ==
            Len(fp) - Cardinality({i \in 1..Len(fp) : valid_molecule_mask[i]})
        frame == [i \in 1..Len(fp) |-> [index |-> i, fp |-> fp[i]]]
        Kept(row) == valid_molecule_mask[row.index]
    IN  IF num_invalid_molecules > 0 /\ remove_invalid
        THEN SelectSeq(frame, Kept)
        ELSE frame

\* validate_smiles: np.frombuffer(bitstring.encode(), 'b1') reads the characters '0'
\* and '1' as booleans, and both are non-zero bytes
validate_smiles(smiles, canonicalize, return_fingerprint, nbits) ==
    LET mol == MolFromSmiles(smiles)
    IN  IF mol # None
        THEN [valid_smiles |-> IF canonicalize THEN mol[1].canonical ELSE smiles,
              is_valid |-> TRUE,
              fp |-> IF return_fingerprint THEN Some([i \in 1..nbits |-> 1]) ELSE None]
        ELSE [valid_smiles |-> smiles,
              is_valid |-> FALSE,
              fp |-> IF return_fingerprint THEN Some(Zeros(nbits)) ELSE None]

NoCall == [op |-> "none"]

\* ------------------------------------------- save_metric_results (__main__.py)
\* the file opened for writing, not for appending: the new row replaces the old ones
save_metric_results_Overwrite(file, row) == <<row>>

\* save_metric_results: metric_df.to_csv(csv_file_path, mode='a', ...)
save_metric_results(file, row) == Append(file, row)

\* a header line in front of every batch of rows
WriteHeader_Always(exists) == TRUE

\* write_header = False if os.path.exists(csv_file_path) else True
WriteHeader(exists) == ~exists

\* the frame read back from the pickle file, if there is one, with the new row under it
PickleAppend(pickle, row) ==
    IF pickle # None THEN Some(Append(pickle[1], row)) ELSE Some(<<row>>)

\* metric_df.drop('predictions', axis=1) when the frame has that column
DropPredictions(row) ==
    [column \in DOMAIN row \ {"predictions"} |-> row[column]]

\* the whole of save_metric_results for a one-row metric_list
SaveMetricResults(row, return_predictions) ==
    /\ pickle_file' = IF return_predictions THEN PickleAppend(pickle_file, row)
                      ELSE pickle_file
    /\ csv_header_at' = IF WriteHeader(csv_exists) THEN Append(csv_header_at, Len(records))
                        ELSE csv_header_at
    /\ records' = save_metric_results(records, DropPredictions(row))
    /\ csv_exists' = TRUE

\* the rows a metric hands to save_metric_results: a value, and for the metrics that
\* keep them the predictions behind it
SinkRows ==
    [value : {0, 1}] \cup [value : {0, 1}, predictions : {"p1", "p2"}]

\* no output file of the metric exists yet
NoFiles ==
    /\ records = <<>>
    /\ csv_exists = FALSE
    /\ csv_header_at = <<>>
    /\ pickle_file = None

Idle ==
    /\ insert_policy \in InsertPolicies
    /\ embedding_rank \in EmbeddingRanks
    /\ sample_cache = <<>>
    /\ embedding_cache = <<>>
    /\ sample_calls = <<>>
    /\ embed_calls = <<>>
    /\ last = NoLast
    /\ pc = "idle"
    /\ run = NoRun
    /\ metric_array = <<>>
    /\ result = NoResult
    /\ runs = 0
    /\ embeddings = <<>>
    /\ corr_call = NoCorr
    /\ estimator = NewEstimator
    /\ kfold_calls = 0
    /\ search = NoSearch
    /\ searches = <<>>
    /\ smiles_call = NoCall
    /\ workers = [w \in Runs |-> NoRequest]

Start == Idle /\ NoFiles

\* the inference layer on its own: requests come in directly
Init ==
    /\ Start
    /\ dataset = <<>>
    /\ sweep = NoSweep
    /\ model_name = "none"
    /\ cv_outcome = <<>>
    /\ inferrer_faults = Healthy
    /\ modelability = PlainModelability

\* a sampling metric object built over a dataset
InitMetric ==
    /\ Start
    /\ dataset \in Datasets
    /\ sweep = NoSweep
    /\ model_name = "none"
    /\ cv_outcome = <<>>
    /\ inferrer_faults = Healthy
    /\ modelability = PlainModelability

\* a nearest neighbor correlation object built over a dataset with at least one
\* molecule (the pairwise distances are not defined over none)
InitNN ==
    /\ Start
    /\ dataset \in Datasets \ {<<>>}
    /\ sweep = NoSweep
    /\ model_name = "none"
    /\ cv_outcome = <<>>
    /\ inferrer_faults = Healthy
    /\ modelability = PlainModelability

\* a Modelability variation: one estimator family of model_dict, and the data
\* (embeddings, fingerprints, one property column) that fix every score
InitGrid ==
    /\ Start
    /\ dataset = <<>>
    /\ sweep = NoSweep
    /\ model_name \in ModelNames
    /\ cv_outcome \in [XData \X Grid -> CvOutcomes]
    /\ inferrer_faults = Healthy
    /\ modelability = PlainModelability

\* the benchmark driver with one sampling metric enabled, configured with a radius list
InitDriver ==
    /\ Start
    /\ dataset \in Datasets
    /\ sweep \in [name : MetricNames, num_samples : SampleCounts, radius_list : RadiusLists]
    /\ model_name = "none"
    /\ cv_outcome = <<>>
    /\ inferrer_faults = Healthy
    /\ modelability = PlainModelability

\* a metric object whose inference service fails for some molecules
InitFault ==
    /\ Start
    /\ dataset \in Datasets
    /\ sweep = NoSweep
    /\ model_name = "none"
    /\ cv_outcome = <<>>
    /\ inferrer_faults \in [InputSmiles -> {"returns", "raises"}]
    /\ modelability = PlainModelability

\* the output files of a metric as an earlier benchmark run left them: none, or a
\* CSV file with its header and rows, with or without the pickle file next to it
InitSink ==
    /\ Idle
    /\ \E prior \in SeqsUpTo(SinkRows, 1), kept \in BOOLEAN :
          IF prior = <<>> THEN NoFiles
          ELSE /\ records = [i \in 1..Len(prior) |-> DropPredictions(prior[i])]
               /\ csv_exists = TRUE
               /\ csv_header_at = <<0>>
               /\ pickle_file = IF kept THEN Some(prior) ELSE None
    /\ dataset = <<>>
    /\ sweep = NoSweep
    /\ model_name = "none"
    /\ cv_outcome = <<>>
    /\ inferrer_faults = Healthy
    /\ modelability = PlainModelability

\* the ways a Modelability object can be built (return_predictions,
\* normalize_inputs) over a dataset with some number of property columns and of rows
\* of embeddings, fingerprints and property values
RowCounts == {1, 2}
Modelabilities ==
    [return_predictions : BOOLEAN, normalize_inputs : BOOLEAN, property_columns : 0..2,
     rows : [embeddings : RowCounts, fingerprints : RowCounts, properties : RowCounts]]

\* a Modelability variation of one estimator family whose fits all succeed
InitModelability ==
    /\ Start
    /\ dataset = <<>>
    /\ sweep = NoSweep
    /\ model_name = "elastic_net"
    /\ cv_outcome \in [XData \X Grid -> {Some(0), Some(1)}]
    /\ inferrer_faults = Healthy
    /\ modelability \in Modelabilities

\* a sampling metric object over a dataset, with an inference service that may never
\* answer for some molecules
InitLive ==
    /\ Start
    /\ embedding_rank = 1
    /\ dataset \in Datasets
    /\ sweep = NoSweep
    /\ model_name = "none"
    /\ cv_outcome = <<>>
    /\ inferrer_faults \in [InputSmiles -> {"returns", "stalls"}]
    /\ modelability = PlainModelability

FindSimilarsSmiles ==
    /\ pc = "idle"
    /\ \E smiles \in InputSmiles, num_samples \in SampleCounts, radius \in RequestRadii :
          find_similars_smiles(smiles, num_samples, radius, FALSE, FALSE)
    /\ UNCHANGED <<setup, prep_state, race_state, embedding_cache, embed_calls, pc, run, metric_array, result, runs,
                   driver_state, embedding_state, grid_state>>

FindEmbedding ==
    /\ pc = "idle"
    /\ \E smiles \in InputSmiles, max_seq_len \in SeqLens :
          find_embedding(smiles, max_seq_len)
    /\ UNCHANGED <<setup, prep_state, race_state, sample_cache, sample_calls, pc, run, metric_array, result, runs,
                   driver_state, embedding_state, grid_state>>

\* calculate(radius, num_samples) is entered: sample_many starts with an empty list
Calculate ==
    /\ pc = "idle"
    /\ runs < MaxRuns
    /\ runs' = runs + 1
    /\ \E name \in MetricNames, radius \in Radii, num_samples \in SampleCounts :
          run' = [name |-> name, radius |-> radius, num_samples |-> num_samples]
    /\ pc' = "sampling"
    /\ metric_array' = <<>>
    /\ UNCHANGED <<setup, prep_state, race_state, sample_cache, embedding_cache, sample_calls, embed_calls, last,
                   result, driver_state, embedding_state, grid_state>>

\* the loop left one molecule early
LoopDone_OneShort(metric_result, smiles_dataset) ==
    Len(metric_result) >= Len(smiles_dataset) - 1

\* `for index in range(len(smiles_dataset.smiles))` has run out
LoopDone(metric_result, smiles_dataset) ==
    Len(metric_result) = Len(smiles_dataset)

\* one iteration of the loop of sample_many: self.sample on the next dataset molecule
SampleMany ==
    /\ pc = "sampling"
    /\ ~LoopDone(metric_array, dataset)
    /\ find_similars_smiles(dataset[Len(metric_array) + 1], run.num_samples,
                            run.radius, FALSE, FALSE)
    /\ IF last'.path = "error"
       THEN pc' = "error" /\ metric_array' = metric_array
       ELSE pc' = pc /\ metric_array' = Append(metric_array, Sample(run.name, last'.ret))
    /\ UNCHANGED <<setup, prep_state, race_state, embedding_cache, embed_calls, run, result, runs, driver_state,
                   embedding_state, grid_state>>

\* the loop is over: _calculate_metric and the returned record
CalculateReturn ==
    /\ pc = "sampling"
    /\ LoopDone(metric_array, dataset)
    /\ result' = [name |-> run.name,
                  num |-> CalculateMetric(metric_array, run.num_samples).num,
                  den |-> CalculateMetric(metric_array, run.num_samples).den,
                  radius |-> run.radius, num_samples |-> run.num_samples]
    /\ pc' = "done"
    /\ UNCHANGED <<setup, prep_state, race_state, sample_cache, embedding_cache, sample_calls, embed_calls, last,
                   run, metric_array, runs, driver_state, embedding_state, grid_state>>

\* the driver takes the record and goes on to the next variation
NextVariation ==
    /\ pc = "done"
    /\ pc' = "idle"
    /\ run' = NoRun
    /\ metric_array' = <<>>
    /\ result' = NoResult
    /\ UNCHANGED <<setup, prep_state, race_state, sample_cache, embedding_cache, sample_calls, embed_calls, last,
                   runs, driver_state, embedding_state, grid_state>>

\* --------------------------------------- NearestNeighborCorrelation (embedding.py)
\* spearmanr(fingerprints_dist, embeddings_dist, top_k): one correlation per row
SpearmanR(rows_count) == [1..rows_count -> CorrValues]

\* the plain mean: one undefined row makes the result undefined
NanMean_Propagate(rows) ==
    LET RECURSIVE Total(_)
        Total(r) == IF r = <<>> THEN 0
                    ELSE (IF Head(r) = None THEN 0 ELSE Head(r)[1]) + Total(Tail(r))
    IN  [num |-> Total(rows),
         den |-> IF \E i \in 1..Len(rows) : rows[i] = None THEN 0 ELSE Len(rows)]

\* xpy.nanmean(metric): the sum of the defined rows over their number
NanMean(rows) ==
    LET RECURSIVE Total(_)
        Total(r) == IF r = <<>> THEN 0
                    ELSE (IF Head(r) = None THEN 0 ELSE Head(r)[1]) + Total(Tail(r))
    IN  [num |-> Total(rows),
         den |-> Cardinality({i \in 1..Len(rows) : rows[i] # None})]

\* `embeddings.shape[0] - 1 if not top_k else top_k`: None and 0 are both falsy
ReportedTopK(top_k, rows_count) ==
    IF top_k = None \/ top_k = Some(0) THEN rows_count - 1 ELSE top_k[1]

\* calculate(top_k) is entered: encode_many starts with an empty list and takes
\* max_seq_len from the dataset
NNCalculate ==
    /\ pc = "idle"
    /\ runs < MaxRuns
    /\ runs' = runs + 1
    /\ \E top_k \in TopKs, max_seq_len \in SeqLens :
          run' = [name |-> "nearest neighbor correlation", top_k |-> top_k,
                  max_seq_len |-> max_seq_len]
    /\ pc' = "encoding"
    /\ embeddings' = <<>>
    /\ UNCHANGED <<setup, prep_state, race_state, sample_cache, embedding_cache, sample_calls, embed_calls, last,
                   metric_array, result, driver_state, corr_call, grid_state>>

\* one iteration of the loop of encode_many: self.encode on the next dataset molecule
EncodeMany ==
    /\ pc = "encoding"
    /\ Len(embeddings) < Len(dataset)
    /\ find_embedding(dataset[Len(embeddings) + 1], run.max_seq_len)
    /\ IF last'.path = "error"
       THEN pc' = "error" /\ embeddings' = embeddings
       ELSE pc' = pc /\ embeddings' = Append(embeddings, last'.ret.embedding)
    /\ UNCHANGED <<setup, prep_state, race_state, sample_cache, sample_calls, run, metric_array, result, runs,
                   driver_state, corr_call, grid_state>>

\* the loop is over: _calculate_metric with the top_k as given, nanmean, the
\* top_k to report, and the returned dictionary
NNReturn ==
    /\ pc = "encoding"
    /\ Len(embeddings) = Len(dataset)
    /\ \E rows \in SpearmanR(Len(embeddings)) :
          /\ corr_call' = [top_k |-> run.top_k, rows |-> rows]
          /\ result' = [name |-> run.name,
                        num |-> NanMean(rows).num, den |-> NanMean(rows).den,
                        top_k |-> ReportedTopK(run.top_k, Len(embeddings))]
    /\ pc' = "done"
    /\ UNCHANGED <<setup, prep_state, race_state, sample_cache, embedding_cache, sample_calls, embed_calls, last,
                   run, metric_array, runs, driver_state, embeddings, grid_state>>

\* --------------------------------------------------- Modelability (embedding.py)
\* a generator that is not seeded: the shuffle depends on how many were drawn before
KFold_Unseeded(random_state, draws) == draws

\* KFold(n_splits, shuffle=True, random_state=0): the shuffle the seed gives
KFold(random_state, draws) == random_state

\* the cross-validated score of the estimator as it stands on xdata under a shuffle;
\* another shuffle of the rows gives other folds and another score
CrossValidate(xdata, estimator_, shuffle) ==
    LET outcome == cv_outcome[<<xdata, estimator_.params[1]>>]
    IN  IF outcome = None THEN None
        ELSE Some((outcome[1] + shuffle) % (MaxMse + 1))

\* the error of the embeddings over the error of the fingerprints
ModelabilityRatio_Inverted(fingerprint_error, embedding_error) ==
    [num |-> embedding_error, den |-> fingerprint_error]

\* ratio = fingerprint_error / embedding_error
ModelabilityRatio(fingerprint_error, embedding_error) ==
    [num |-> fingerprint_error, den |-> embedding_error]

\* a combination that only equals the best so far takes its place
Better_OrEqual(avg_mse, best_score) == avg_mse <= best_score

\* `if avg_mse < best_score`
Better(avg_mse, best_score) == avg_mse < best_score

\* estimator.predict(xdata): the predictions, named by the parameters of the
\* estimator, the rows it was last fitted on and the rows it predicts
Predict(estimator_, xdata) ==
    [params |-> estimator_.params, fitted_on |-> estimator_.rows, xdata |-> xdata]

\* self.norm_data, self.norm_prop of __init__: scalers, or the value False
NormProp(normalize_inputs) ==
    IF normalize_inputs THEN "StandardScaler" ELSE "False"

\* `(self.norm_prop is not None) & self.return_predictions`
InverseTransformWanted(norm_prop, return_predictions) ==
    norm_prop # "None" /\ return_predictions

\* `assert xdata.shape[0] == ydata.shape[0]`
SameRows(xdata, ydata) ==
    modelability.rows[xdata] = modelability.rows[ydata]

\* gpu_gridsearch_cv(estimator, param_dict, xdata, ydata) is entered
gpu_gridsearch_cv(estimator_name, param_dict, xdata, ydata) ==
    [xdata |-> xdata, ydata |-> ydata, estimator |-> estimator_name,
     param_dict |-> param_dict, index |-> 0, best_score |-> Inf, best_param |-> None,
     best_pred |-> None, splits |-> <<>>]

\* _calculate_metric is entered: the assertion on the property columns, then the
\* first grid search, on the embeddings, with its assertion on the row counts
ModelabilityCalculate ==
    /\ pc = "idle"
    /\ Len(searches) + 2 <= MaxSearches
    /\ runs' = runs + 1
    /\ IF modelability.property_columns = 1 /\ SameRows("embeddings", "properties")
       THEN /\ search' = gpu_gridsearch_cv(model_name, Grid, "embeddings", "properties")
            /\ pc' = "embedding_search"
       ELSE /\ search' = search
            /\ pc' = "error"
    /\ UNCHANGED <<setup, prep_state, race_state, sample_cache, embedding_cache, sample_calls, embed_calls, last,
                   run, metric_array, result, driver_state, embedding_state, estimator,
                   kfold_calls, searches>>

\* one pass of `for param in ParameterGrid(param_dict)`: set_params, a new KFold,
\* fit and predict on its folds, the average, the comparison with the best so far.
\* Nothing catches what estimator.fit raises.
GridSearchStep ==
    /\ pc \in {"embedding_search", "fingerprint_search"}
    /\ search.index < Cardinality(search.param_dict)
    /\ LET param == search.index + 1
           shuffle == KFold(0, kfold_calls)
           fitted == [params |-> Some(param), fitted |-> Some(<<search.xdata, shuffle>>),
                      rows |-> "train rows of the last fold"]
           avg_mse == CrossValidate(search.xdata, fitted, shuffle)
       IN  /\ estimator' = fitted
           /\ kfold_calls' = kfold_calls + 1
           /\ IF avg_mse = None
              THEN /\ pc' = "error"
                   /\ search' = search
              ELSE /\ pc' = pc
                   /\ search' = [search EXCEPT
                         !.index = param,
                         !.splits = Append(@, shuffle),
                         !.best_score = IF Better(avg_mse[1], @) THEN avg_mse[1] ELSE @,
                         !.best_param = IF Better(avg_mse[1], search.best_score)
                                        THEN Some(param) ELSE @,
                         !.best_pred = IF /\ Better(avg_mse[1], search.best_score)
                                          /\ modelability.return_predictions
                                       THEN Some(Predict(fitted, search.xdata)) ELSE @]
    /\ UNCHANGED <<setup, prep_state, race_state, sample_cache, embedding_cache, sample_calls, embed_calls, last,
                   run, metric_array, result, runs, driver_state, embedding_state,
                   searches>>

\* the grid is exhausted: the search returns; after the one on the embeddings the
\* one on the fingerprints is entered with the same estimator, grid and target
GridSearchReturn ==
    /\ pc \in {"embedding_search", "fingerprint_search"}
    /\ search.index = Cardinality(search.param_dict)
    /\ searches' = Append(searches, search)
    /\ IF pc = "embedding_search"
       THEN IF SameRows("fingerprints", "properties")
            THEN /\ search' = gpu_gridsearch_cv(model_name, Grid, "fingerprints",
                                                "properties")
                 /\ pc' = "fingerprint_search"
            ELSE /\ search' = NoSearch
                 /\ pc' = "error"
       ELSE /\ search' = NoSearch
            /\ pc' = "ratio"
    /\ UNCHANGED <<setup, prep_state, race_state, sample_cache, embedding_cache, sample_calls, embed_calls, last,
                   run, metric_array, result, runs, driver_state, embedding_state,
                   estimator, kfold_calls>>

\* both searches are back: the ratio, the inverse transform of the predictions and
\* the results dictionary.  The value False has no inverse_transform: the call raises.
ModelabilityReturn ==
    /\ pc = "ratio"
    /\ LET embedding == searches[Len(searches) - 1]
           fingerprint == searches[Len(searches)]
           ratio == ModelabilityRatio(fingerprint.best_score, embedding.best_score)
           norm_prop == NormProp(modelability.normalize_inputs)
           wanted == InverseTransformWanted(norm_prop, modelability.return_predictions)
       IN  IF wanted /\ norm_prop # "StandardScaler"
           THEN /\ result' = result
                /\ pc' = "error"
           ELSE /\ result' = [name |-> "modelability", num |-> ratio.num, den |-> ratio.den,
                               fingerprint_error |-> fingerprint.best_score,
                               embedding_error |-> embedding.best_score,
                               fingerprint_param |-> fingerprint.best_param,
                               embedding_param |-> embedding.best_param,
                               predictions |-> [fingerprint_pred |-> fingerprint.best_pred,
                                                embedding_pred |-> embedding.best_pred,
                                                inverse_transformed |-> wanted]]
                /\ pc' = "done"
    /\ UNCHANGED <<setup, prep_state, race_state, sample_cache, embedding_cache, sample_calls, embed_calls, last,
                   run, metric_array, runs, driver_state, embedding_state, grid_state>>

\* the results went to the caller; the metric object can be asked again
ModelabilityDone ==
    /\ pc = "done"
    /\ pc' = "idle"
    /\ result' = NoResult
    /\ UNCHANGED <<setup, prep_state, race_state, sample_cache, embedding_cache, sample_calls, embed_calls, last,
                   run, metric_array, runs, driver_state, embedding_state, grid_state>>

\* ------------------------------------------------- benchmark driver (__main__.py)
\* impl.variations(...): one keyword dictionary per value of the swept radius list
Variations(radius_list) ==
    [i \in 1..Len(radius_list) |-> [radius |-> radius_list[i]]]

\* one call of save_metric_results, from any metric of the benchmark
Save ==
    /\ Len(records) < MaxRows
    /\ \E row \in SinkRows, return_predictions \in BOOLEAN :
          SaveMetricResults(row, return_predictions)
    /\ UNCHANGED <<setup, prep_state, race_state, sample_cache, embedding_cache, sample_calls, embed_calls, last, pc,
                   run, metric_array, result, runs, embedding_state, grid_state>>

\* `for variation in variations: results = impl.calculate(**variation)`: the next
\* variation is taken and calculate is entered with it
DriverCalculate ==
    /\ pc = "idle"
    /\ runs < Len(Variations(sweep.radius_list))
    /\ runs' = runs + 1
    /\ run' = [name |-> sweep.name, radius |-> Variations(sweep.radius_list)[runs + 1].radius,
               num_samples |-> sweep.num_samples]
    /\ pc' = "sampling"
    /\ metric_array' = <<>>
    /\ UNCHANGED <<setup, prep_state, race_state, sample_cache, embedding_cache, sample_calls, embed_calls, last,
                   result, driver_state, embedding_state, grid_state>>

\* the record calculate returned gets the run's columns and is appended to the file
DriverSave ==
    /\ pc = "done"
    /\ SaveMetricResults([name |-> result.name, num |-> result.num, den |-> result.den,
                          radius |-> result.radius, num_samples |-> result.num_samples,
                          inferrer |-> InferrerName, iteration |-> 0,
                          data_size |-> Len(dataset)], FALSE)
    /\ pc' = "idle"
    /\ run' = NoRun
    /\ metric_array' = <<>>
    /\ result' = NoResult
    /\ UNCHANGED <<setup, prep_state, race_state, sample_cache, embedding_cache, sample_calls, embed_calls, last,
                   runs, embedding_state, grid_state>>

\* _find_similars_smiles called with any radius and any pair of flags
FindSimilarsSmilesAny ==
    /\ pc = "idle"
    /\ \E smiles \in InputSmiles, radius \in Radii, force_unique \in BOOLEAN,
          sanitize \in BOOLEAN :
          find_similars_smiles(smiles, 1, radius, force_unique, sanitize)
    /\ UNCHANGED <<setup, prep_state, race_state, embedding_cache, embed_calls, pc, run, metric_array,
                   result, runs, driver_state, embedding_state, grid_state>>

\* one statement of _find_similars_smiles in one of the runs, any run at any time:
\* nothing serializes them
RaceStep ==
    /\ pc = "idle"
    /\ \E w \in Runs :
          \/ \E smiles \in InputSmiles : RaceFetch(w, smiles)
          \/ RaceSample(w)
          \/ RaceInsert(w)
          \/ RaceReturn(w)
    /\ UNCHANGED <<setup, prep_state, embedding_cache, embed_calls, last, pc, run,
                   metric_array, result, runs, driver_state, embedding_state, grid_state>>

\* a caller validates one string
ValidateSmiles ==
    /\ pc = "idle"
    /\ \E smiles \in SmilesStrings, canonicalize \in BOOLEAN, return_fingerprint \in BOOLEAN,
          nbits \in NBits :
          smiles_call' = [op |-> "validate_smiles", smiles |-> smiles,
                          canonicalize |-> canonicalize,
                          return_fingerprint |-> return_fingerprint, nbits |-> nbits,
                          ret |-> validate_smiles(smiles, canonicalize,
                                                  return_fingerprint, nbits)]
    /\ UNCHANGED <<setup, race_state, sample_cache, embedding_cache, sample_calls, embed_calls,
                   last, pc, run, metric_array, result, runs, driver_state, embedding_state,
                   grid_state>>

\* dataset preparation fingerprints a dataframe of molecule strings
CalcMorganFingerprints ==
    /\ pc = "idle"
    /\ \E dataframe \in SeqsUpTo(SmilesStrings, MaxDataset), remove_invalid \in BOOLEAN,
          nbits \in NBits :
          smiles_call' = [op |-> "calc_morgan_fingerprints", dataframe |-> dataframe,
                          remove_invalid |-> remove_invalid, nbits |-> nbits,
                          ret |-> calc_morgan_fingerprints(dataframe, remove_invalid, nbits)]
    /\ UNCHANGED <<setup, race_state, sample_cache, embedding_cache, sample_calls, embed_calls,
                   last, pc, run, metric_array, result, runs, driver_state, embedding_state,
                   grid_state>>

\* the cache-aware inference layer, driven request by request
Next ==
    \/ FindSimilarsSmiles
    \/ FindEmbedding

\* the sampling metric engine, driven variation by variation
NextMetric ==
    \/ Calculate
    \/ SampleMany
    \/ CalculateReturn
    \/ NextVariation

\* the driver's loop over the variations of one sampling metric
NextDriver ==
    \/ DriverCalculate
    \/ SampleMany
    \/ CalculateReturn
    \/ DriverSave

\* the nearest neighbor correlation of a dataset
NextNN ==
    \/ NNCalculate
    \/ EncodeMany
    \/ NNReturn

\* Modelability for one estimator family
NextGrid ==
    \/ ModelabilityCalculate
    \/ GridSearchStep
    \/ GridSearchReturn
    \/ ModelabilityReturn
    \/ ModelabilityDone

\* one calculate of a sampling metric or of an embedding metric over a faulty service
NextFault ==
    \/ Calculate
    \/ SampleMany
    \/ CalculateReturn
    \/ NNCalculate
    \/ EncodeMany
    \/ NNReturn

\* the benchmark writing a metric's rows, one call of save_metric_results at a time
NextSink ==
    \/ Save

\* the molecule utilities, called one at a time
NextSmiles ==
    \/ ValidateSmiles
    \/ CalcMorganFingerprints

\* the sampling namespace under requests that differ in every key component
NextFrame ==
    \/ FindSimilarsSmilesAny

\* two benchmark runs over one cache store
NextRace ==
    \/ RaceStep

\* one calculate call of a sampling metric
NextLive ==
    \/ Calculate
    \/ SampleMany
    \/ CalculateReturn

Spec == Init /\ [][Next]_vars

SpecMetric == InitMetric /\ [][NextMetric]_vars

SpecDriver == InitDriver /\ [][NextDriver]_vars

SpecNN == InitNN /\ [][NextNN]_vars

SpecGrid == InitGrid /\ [][NextGrid]_vars

SpecFault == InitFault /\ [][NextFault]_vars

SpecSink == InitSink /\ [][NextSink]_vars

SpecSmiles == Init /\ [][NextSmiles]_vars

SpecModelability == InitModelability /\ [][NextGrid]_vars

SpecFrame == Init /\ [][NextFrame]_vars

SpecRace == Init /\ [][NextRace]_vars

\* the interpreter runs the loop of sample_many and the return of calculate whenever
\* they can run: nothing else is scheduled
SpecLive ==
    /\ InitLive
    /\ [][NextLive]_vars
    /\ WF_vars(SampleMany)
    /\ WF_vars(CalculateReturn)

\* ------------------------------------------------------------------ claims
SamplingKeys ==
    {<<InferrerName, smiles, num_samples, radius, FALSE, FALSE>> :
        smiles \in InputSmiles, num_samples \in SampleCounts, radius \in RequestRadii}

EmbeddingRequests == InputSmiles \X SeqLens

\* what a fetch with the arguments of the last request returns now
FetchAgain ==
    IF last.op = "find_similars_smiles" THEN Fetch(sample_cache, last.key)
    ELSE Fetch(embedding_cache, EmbeddingKey(last.key[1], last.key[2]))

\* C1: after a request took the miss path (client call, then insert), a fetch with
\* the same arguments returns exactly the value that request returned.
C1_RoundTrip ==
    last.path = "miss" => FetchAgain = Some(last.ret)

C3_WriteOnce ==
    [][/\ \A k \in DOMAIN sample_cache :
             k \in DOMAIN sample_cache' /\ sample_cache'[k] = sample_cache[k]
       /\ \A s \in DOMAIN embedding_cache :
             s \in DOMAIN embedding_cache' /\ embedding_cache'[s] = embedding_cache[s]]_vars

\* C4: the inference client is called at most once per request fingerprint.
C4_AtMostOnce ==
    /\ \A k \in DOMAIN sample_calls : sample_calls[k] <= 1
    /\ \A c \in DOMAIN embed_calls : embed_calls[c] <= 1

\* C5: inserting a fingerprint with the same result a second time changes nothing:
\* after one insert the fingerprint has one entry holding a result, the other
\* entries are as before, and the second insert leaves that state as it is; a
\* request that re-inserts the value already stored leaves the cache unchanged.
C5_InsertIdempotent ==
    /\ [](/\ \A k \in SamplingKeys : \A v \in ClientSampleResults(k[2], k[3]) :
                LET once == Insert(sample_cache, k, v)
                IN  /\ Insert(once, k, v) = once
                    /\ DOMAIN once = DOMAIN sample_cache \cup {k}
                    /\ once[k] \in ClientSampleResults(k[2], k[3])
                    /\ \A j \in DOMAIN sample_cache \ {k} : once[j] = sample_cache[j]
          /\ \A r \in EmbeddingRequests :
                LET s == EmbeddingKey(r[1], r[2])
                    v == ClientEmbeddingResult(r[1], r[2])
                    once == Insert(embedding_cache, s, v)
                IN  /\ Insert(once, s, v) = once
                    /\ DOMAIN once = DOMAIN embedding_cache \cup {s}
                    /\ once[s] \in {ClientEmbeddingResult(q[1], q[2]) : q \in EmbeddingRequests}
                    /\ \A j \in DOMAIN embedding_cache \ {s} : once[j] = embedding_cache[j])
    /\ [][(/\ last'.path = "miss"
           /\ last'.op = "find_embedding"
           /\ last'.present
           /\ embed_calls' # embed_calls
           /\ embedding_cache[EmbeddingKey(last'.key[1], last'.key[2])] = last'.ret)
          => embedding_cache' = embedding_cache]_vars

\* a request re-inserted the very value that was stored, and it is still the entry
C5_Witness ==
    /\ last.path = "miss"
    /\ last.op = "find_embedding"
    /\ last.present
    /\ embed_calls[last.key] = 2
    /\ Cardinality(DOMAIN embed_calls) = 1
    /\ Fetch(embedding_cache, EmbeddingKey(last.key[1], last.key[2])) = Some(last.ret)

\* C6: an embedding request served from the cache gets the entry computed for its
\* own molecule and its own max_seq_len.
C6_KeyCarriesMaxLen ==
    (last.op = "find_embedding" /\ last.path = "hit") => last.ret.embedding = last.key

RunKey(i) ==
    <<InferrerName, dataset[i], run.num_samples, run.radius, FALSE, FALSE>>

\* C8: the value Validity.calculate and Unique.calculate return lies in [0, 1].
C8_ValueInUnitInterval ==
    (pc = "done" /\ result.name \in {"validity", "unique"})
        => /\ result.den > 0
           /\ 0 <= result.num
           /\ result.num <= result.den

\* C9: the per-molecule count of Unique.sample never exceeds num_samples.
C9_UniqueCountAtMostN ==
    run.name = "unique"
        => \A i \in 1..Len(metric_array) : metric_array[i] <= run.num_samples

C9_Witness ==
    /\ run.name = "unique"
    /\ run.num_samples = MaxSamples
    /\ \E i \in 1..Len(metric_array) :
          /\ metric_array[i] = run.num_samples
          /\ Len(sample_cache[RunKey(i)]) = run.num_samples + 1
          /\ \A j \in 2..Len(sample_cache[RunKey(i)]) :
                sample_cache[RunKey(i)][j] # dataset[i]

\* the counts of the first i dataset molecules, taken from their sample results
RECURSIVE CountsUpTo(_)
CountsUpTo(i) ==
    IF i = 0 THEN 0
    ELSE CountsUpTo(i - 1) + Sample(run.name, sample_cache[RunKey(i)])

\* C10: the metric value is sum(per-molecule counts) / (dataset_size * n), every
\* dataset molecule adding its count to the numerator and n to the denominator.
C10_PopulationRate ==
    pc = "done"
        => /\ result.num = CountsUpTo(Len(dataset))
           /\ result.den = Len(dataset) * run.num_samples

\* a finished run over two molecules, one with count 0 and one with a positive count
C10_Witness ==
    /\ pc = "done"
    /\ run.num_samples > 0
    /\ \E i, j \in 1..Len(dataset) :
          /\ Sample(run.name, sample_cache[RunKey(i)]) = 0
          /\ Sample(run.name, sample_cache[RunKey(j)]) > 0

\* C11: calculate with num_samples = 0 never returns a metric record: it fails
\* before dividing by zero.
C11_ZeroSamplesFailFast ==
    pc = "done" => result.num_samples # 0

\* the candidates of a list that parse, each occurrence counted
RECURSIVE CountParsable(_)
CountParsable(candidates) ==
    IF candidates = <<>> THEN 0
    ELSE (IF Head(candidates) \in ParsableSmiles THEN 1 ELSE 0) + CountParsable(Tail(candidates))

\* C12: Validity's per-molecule count is the number of entries after the first of
\* the sample result that parse, duplicates and candidates equal to the input
\* included; [CCO, CCC, invalid_string, CCO] gives 2.
C12_ValidityCount ==
    /\ ValiditySample(<<"CCO", "CCC", "invalid_string", "CCO">>) = 2
    /\ run.name = "validity"
          => \A i \in 1..Len(metric_array) :
                metric_array[i] = CountParsable(Tail(sample_cache[RunKey(i)]))

\* a molecule whose candidates are twice the input molecule itself: both counted
C12_Witness ==
    /\ run.name = "validity"
    /\ \E i \in 1..Len(metric_array) :
          /\ sample_cache[RunKey(i)] = <<dataset[i], dataset[i], dataset[i]>>
          /\ metric_array[i] = 2

\* the distinct strings of a list of candidates
RECURSIVE CountDistinct(_)
CountDistinct(candidates) ==
    IF candidates = <<>> THEN 0
    ELSE (IF \E j \in 2..Len(candidates) : candidates[j] = Head(candidates) THEN 0 ELSE 1)
         + CountDistinct(Tail(candidates))

\* C13: Uniqueness's per-molecule count is the number of distinct strings among
\* the entries after the first, with no validity filter: an unparseable string
\* counts as one value and so does a candidate equal to the input molecule.
C13_UniqueCount ==
    /\ UniqueSample(<<"CCO", "CCC", "invalid_string", "CCO">>) = 3
    /\ run.name = "unique"
          => \A i \in 1..Len(metric_array) :
                metric_array[i] = CountDistinct(Tail(sample_cache[RunKey(i)]))

\* candidates: the input molecule again and an unparseable string, count 2
C13_Witness ==
    /\ run.name = "unique"
    /\ \E i \in 1..Len(metric_array) :
          /\ Len(sample_cache[RunKey(i)]) = 3
          /\ sample_cache[RunKey(i)][2] = dataset[i]
          /\ sample_cache[RunKey(i)][3] \notin ParsableSmiles
          /\ metric_array[i] = 2

\* the candidates of a list that the training set reports as known
RECURSIVE CountKnown(_)
CountKnown(candidates) ==
    IF candidates = <<>> THEN 0
    ELSE (IF Head(candidates) \in TrainingSmiles THEN 1 ELSE 0) + CountKnown(Tail(candidates))

\* C14: Novelty's per-molecule count is the number of entries after the first that
\* the training set reports as known; the input molecule (first entry) never
\* contributes.
C14_NoveltyExcludesInput ==
    run.name = "novelty"
        => \A i \in 1..Len(metric_array) :
              metric_array[i] = CountKnown(Tail(sample_cache[RunKey(i)]))

C16_ReportsEffectiveTopK ==
    pc = "done"
        => /\ run.top_k = None => result.top_k = Len(dataset) - 1
           /\ run.top_k # None => result.top_k = run.top_k[1]
           /\ result.top_k = (IF corr_call.top_k = None THEN Len(dataset) - 1
                              ELSE corr_call.top_k[1])

\* C17: the value is the average of the per-row correlations over the rows whose
\* correlation is defined; it lies in [-1, 1] when at least one row is defined, and
\* it is NaN if and only if every row is undefined.
C17_NanMeanOverDefinedRows ==
    pc = "done"
        => LET rows == corr_call.rows
               defined == {i \in 1..Len(rows) : rows[i] # None}
               Sum[D \in SUBSET defined] ==
                   IF D = {} THEN 0
                   ELSE LET i == CHOOSE j \in D : TRUE IN rows[i][1] + Sum[D \ {i}]
           IN  /\ Len(rows) = Len(dataset)
               /\ result.den = Cardinality(defined)
               /\ result.num = Sum[defined]
               /\ defined # {} => (-result.den <= result.num /\ result.num <= result.den)
               /\ (result.den = 0) <=> (defined = {})

\* one row is undefined, another is defined: the value is the defined row's
C17_Witness ==
    /\ pc = "done"
    /\ \E i, j \in 1..Len(corr_call.rows) :
          /\ corr_call.rows[i] = None
          /\ corr_call.rows[j] = Some(-1)
    /\ result.den = 1
    /\ result.num = -1

\* C18: the Modelability value is fingerprint_best_mse / embedding_best_mse, both
\* from grid searches with the same estimator family, the same grid and the same
\* property target; it is strictly positive when both errors are positive and
\* finite, and greater than 1 exactly when the embedding error is the smaller one.
C18_RatioFingerprintOverEmbedding ==
    pc = "done"
        => LET embedding == searches[Len(searches) - 1]
               fingerprint == searches[Len(searches)]
               positive == /\ 0 < embedding.best_score /\ embedding.best_score < Inf
                           /\ 0 < fingerprint.best_score /\ fingerprint.best_score < Inf
           IN  /\ embedding.xdata = "embeddings"
               /\ fingerprint.xdata = "fingerprints"
               /\ embedding.estimator = fingerprint.estimator
               /\ embedding.param_dict = fingerprint.param_dict
               /\ embedding.ydata = fingerprint.ydata
               /\ result.num = fingerprint.best_score
               /\ result.den = embedding.best_score
               /\ positive => result.num * result.den > 0
               /\ positive => ((result.num > result.den)
                                  <=> (embedding.best_score < fingerprint.best_score))

\* both errors positive, the embedding error the smaller one: ratio above 1
C18_Witness ==
    /\ pc = "done"
    /\ result.embedding_error > 0
    /\ result.embedding_error < result.fingerprint_error
    /\ result.fingerprint_error < Inf
    /\ result.num > result.den

C20_FailingCombinationSkipped ==
    /\ pc = "error"
          => \A param \in search.param_dict : cv_outcome[<<search.xdata, param>>] = None
    /\ \A i \in 1..Len(searches) :
          \E param \in searches[i].param_dict :
              cv_outcome[<<searches[i].xdata, param>>] # None

\* C21: a failure of the inference client during a cache miss is not retried.  The
\* step in which the client raises counts exactly one client call, changes neither
\* cache namespace and moves the computation to its error state; from there no
\* further client call is made, nothing is inserted and no result is returned.
C21_FailureNotRetried ==
    /\ [][(last' # last /\ last'.path = "error") =>
            /\ TotalCalls' = TotalCalls + 1
            /\ sample_cache' = sample_cache
            /\ embedding_cache' = embedding_cache
            /\ Fetch(sample_cache', last'.key) = Fetch(sample_cache, last'.key)
            /\ pc' = "error"]_vars
    /\ [][pc = "error" =>
            /\ pc' = "error"
            /\ TotalCalls' = TotalCalls
            /\ sample_cache' = sample_cache
            /\ embedding_cache' = embedding_cache]_vars
    /\ [](pc = "error" => last.path = "error" /\ result = NoResult)

\* the client raised on the second molecule, after the first one was sampled and cached
C21_Witness ==
    /\ pc = "error"
    /\ last.op = "find_similars_smiles"
    /\ last.path = "error"
    /\ Len(metric_array) = 1
    /\ last.key \notin DOMAIN sample_cache
    /\ DOMAIN sample_cache # {}
    /\ sample_calls[last.key] = 1

\* C22: metric output is append-only.  Every call of save_metric_results leaves the
\* rows already in the CSV file in place and puts its row after them, does the same
\* to the pickle file when predictions are retained (and does not touch it
\* otherwise), and writes the CSV header only when it creates the file: a file that
\* exists has exactly one header line, above its first row.
C22_AppendOnly ==
    /\ [][records' # records \/ pickle_file' # pickle_file \/ csv_header_at' # csv_header_at =>
            /\ Len(records') = Len(records) + 1
            /\ SubSeq(records', 1, Len(records)) = records
            /\ \/ pickle_file' = pickle_file
               \/ /\ pickle_file' # None
                  /\ LET old == IF pickle_file = None THEN <<>> ELSE pickle_file[1]
                     IN  /\ Len(pickle_file'[1]) = Len(old) + 1
                         /\ SubSeq(pickle_file'[1], 1, Len(old)) = old
            /\ csv_header_at' = (IF csv_exists THEN csv_header_at ELSE <<0>>)]_vars
    /\ [](csv_exists => csv_header_at = <<0>>)
    /\ [](~csv_exists => records = <<>> /\ csv_header_at = <<>>)

\* a CSV file with three rows, and a pickle file that got two of them
C22_Witness ==
    /\ csv_exists
    /\ Len(records) = 3
    /\ records[1] # records[2]
    /\ pickle_file # None
    /\ Len(pickle_file[1]) = 2
    /\ "predictions" \in DOMAIN pickle_file[1][2]

\* C23: for a string that does not parse, the validator reports is_valid = FALSE and
\* returns the string unchanged, with an all-zero fingerprint of width nbits when one
\* is requested; fingerprinting a dataset keeps every row (the zero rows included)
\* when remove_invalid is FALSE, and when it is TRUE drops exactly the rows of the
\* molecules the validator calls invalid.
C23_InvalidReportedAndDropped ==
    /\ smiles_call.op = "validate_smiles" /\ MolFromSmiles(smiles_call.smiles) = None =>
          /\ smiles_call.ret.is_valid = FALSE
          /\ smiles_call.ret.valid_smiles = smiles_call.smiles
          /\ smiles_call.return_fingerprint =>
                smiles_call.ret.fp = Some([i \in 1..smiles_call.nbits |-> 0])
    /\ smiles_call.op = "calc_morgan_fingerprints" =>
          LET kept == {smiles_call.ret[i].index : i \in 1..Len(smiles_call.ret)}
              rows == 1..Len(smiles_call.dataframe)
              Invalid(i) == ~validate_smiles(smiles_call.dataframe[i], FALSE, FALSE,
                                             smiles_call.nbits).is_valid
          IN  /\ Len(smiles_call.ret) = Cardinality(kept)
              /\ \A i \in 1..Len(smiles_call.ret) :
                    Invalid(smiles_call.ret[i].index) =>
                        smiles_call.ret[i].fp = [b \in 1..smiles_call.nbits |-> 0]
              /\ IF smiles_call.remove_invalid
                 THEN kept = {i \in rows : ~Invalid(i)}
                 ELSE kept = rows

\* C24: a grid search returns the combination with the lowest cross-validated
\* average MSE of the whole grid and that MSE as the best score; the best is replaced
\* only by a strictly lower average, so of the combinations tied for the minimum
\* the first in grid order is returned.
C24_FirstArgMin ==
    \A i \in 1..Len(searches) :
        LET s == searches[i]
            AvgMse(param) ==
                CrossValidate(s.xdata, [params |-> Some(param)], s.splits[param])[1]
        IN  /\ s.best_param # None
            /\ s.best_score = AvgMse(s.best_param[1])
            /\ \A param \in s.param_dict : s.best_score <= AvgMse(param)
            /\ \A param \in s.param_dict :
                  AvgMse(param) = s.best_score => s.best_param[1] <= param

\* a search came back from a grid whose last two combinations tie for the minimum:
\* the first of the two was returned
C24_Witness ==
    /\ MaxGrid >= 2
    /\ \E i \in 1..Len(searches) :
          LET s == searches[i]
          IN  /\ cv_outcome[<<s.xdata, MaxGrid>>] = cv_outcome[<<s.xdata, MaxGrid - 1>>]
              /\ cv_outcome[<<s.xdata, MaxGrid>>] # None
              /\ \A param \in s.param_dict :
                    cv_outcome[<<s.xdata, MaxGrid>>][1] <= cv_outcome[<<s.xdata, param>>][1]
              /\ s.best_param = Some(MaxGrid - 1)
              /\ s.best_score = cv_outcome[<<s.xdata, MaxGrid>>][1]

\* C25: when predictions are retained, the predictions a grid search returns are
\* those of the best combination only, from a model refitted on the full data with
\* the winning parameters.
C25_PredictionsFromRefit ==
    \A i \in 1..Len(searches) :
        modelability.return_predictions =>
            /\ searches[i].best_pred # None
            /\ searches[i].best_pred[1].params = searches[i].best_param
            /\ searches[i].best_pred[1].xdata = searches[i].xdata
            /\ searches[i].best_pred[1].fitted_on = "all rows"

\* C26: retained predictions are inverse-transformed by the target scaler when
\* normalization is enabled, and with normalization disabled and predictions
\* retained _calculate_metric completes and returns the predictions untransformed:
\* once both searches are back, the next step returns the results.
C26_PredictionsReturned ==
    [][pc = "ratio" /\ modelability.return_predictions =>
          /\ pc' = "done"
          /\ result'.predictions.fingerprint_pred = searches[Len(searches)].best_pred
          /\ result'.predictions.embedding_pred = searches[Len(searches) - 1].best_pred
          /\ result'.predictions.inverse_transformed = modelability.normalize_inputs]_vars

\* C27: Modelability requires exactly one property column and as many rows of
\* features as of target values: with another number of property columns, or with
\* differing row counts, the computation stops before any estimator is fitted and
\* no ratio is returned.
C27_AssertBeforeAnyFit ==
    (\/ modelability.property_columns # 1
     \/ modelability.rows.embeddings # modelability.rows.properties
     \/ modelability.rows.fingerprints # modelability.rows.properties)
        => /\ estimator = NewEstimator
           /\ kfold_calls = 0
           /\ result = NoResult
           /\ pc \notin {"ratio", "done"}

\* C28: a cache-then-client request changes at most the entry of its own key.  On a
\* hit there is no client call and no insert; on a miss the client is called once
\* and the result is inserted under the six components the fetch used (inferrer
\* class name, molecule, num_samples, radius, force_unique, sanitize); every other
\* entry of the sampling namespace, and the embedding namespace, stay as they were.
C28_OwnEntryOnly ==
    [][last' # last /\ last'.op = "find_similars_smiles" =>
          LET key == last'.key
          IN  /\ Len(key) = 6
              /\ key[1] = InferrerName
              /\ \A k \in DOMAIN sample_cache \ {key} :
                    k \in DOMAIN sample_cache' /\ sample_cache'[k] = sample_cache[k]
              /\ DOMAIN sample_cache' \subseteq DOMAIN sample_cache \cup {key}
              /\ embedding_cache' = embedding_cache
              /\ last'.path = "hit" =>
                    /\ sample_cache' = sample_cache
                    /\ sample_calls' = sample_calls
              /\ last'.path = "miss" =>
                    /\ key \in DOMAIN sample_cache'
                    /\ sample_cache'[key] = last'.ret
                    /\ TotalCalls' = TotalCalls + 1
                    /\ sample_calls' = Bump(sample_calls, key)]_vars

\* two requests that differ in the sanitize flag only have an entry each, and the
\* last request was served from the cache
C28_Witness ==
    /\ last.op = "find_similars_smiles"
    /\ last.path = "hit"
    /\ \E k1, k2 \in DOMAIN sample_cache :
          /\ k1 # k2
          /\ \A c \in 1..5 : k1[c] = k2[c]
          /\ k1[6] # k2[6]
          /\ last.key = k1

\* C29: two runs that share the cache store and interleave their fetch, client call
\* and insert on the same key can both miss and both call the client; when both
\* are through, the cache holds one value under the key, the list one of them
\* generated, and each run returned what it would have returned alone: the list
\* its own client call gave it, or on a hit the list it fetched.
C29_DuplicateInsertRace ==
    (\A w \in Runs : workers[w].pc = "done") =>
        \A w \in Runs :
            LET key == workers[w].key
            IN  /\ key \in DOMAIN sample_cache
                /\ \E v \in Runs :
                      /\ workers[v].key = key
                      /\ workers[v].fetched = None
                      /\ Some(sample_cache[key]) = workers[v].generated_smiles
                /\ workers[w].ret = workers[w].generated_smiles
                /\ workers[w].fetched # None => workers[w].ret = workers[w].fetched
                /\ workers[w].fetched = None =>
                      /\ workers[w].ret[1] \in ClientSampleResults(key[2], key[3])
                      /\ sample_calls[key] >= 1

\* both runs missed on the same key, both called the client and got different
\* lists; each returned its own, and the cache holds one of the two
C29_Witness ==
    /\ \A w \in Runs : workers[w].pc = "done" /\ workers[w].fetched = None
    /\ workers[1].key = workers[2].key
    /\ sample_calls[workers[1].key] = 2
    /\ workers[1].ret # workers[2].ret
    /\ sample_cache[workers[1].key] = workers[2].ret[1]

\* the molecules of the dataset that the inference service never answers for
Stalled == {i \in 1..Len(dataset) : inferrer_faults[dataset[i]] = "stalls"}

\* C30: if every inference call returns, calculate terminates; it issues one
\* cache-then-client request per dataset molecule, in dataset order, each adding one
\* entry to the array of per-molecule counts, which has dataset_size entries when
\* calculate returns.  If an inference call never returns, calculate never completes.
C30_TerminatesUnlessStalled ==
    /\ (Stalled = {}) => (pc = "sampling" ~> pc = "done")
    /\ [][metric_array' # metric_array /\ pc = "sampling" =>
            /\ Len(metric_array') = Len(metric_array) + 1
            /\ last'.op = "find_similars_smiles"
            /\ last'.key = FetchSamplingKey(InferrerName, dataset[Len(metric_array')],
                                            run.num_samples, run.radius, FALSE, FALSE)
            /\ SubSeq(metric_array', 1, Len(metric_array)) = metric_array]_vars
    /\ [](pc = "done" => Len(metric_array) = Len(dataset))
    /\ [](pc = "sampling" /\ last.op # "none" => last.key[2] = dataset[Len(metric_array)])
    /\ (Stalled # {}) => [](pc # "done" /\ \A i \in Stalled : Len(metric_array) < i)

\* calculate returned over a dataset of two different molecules
C30_Witness ==
    /\ pc = "done"
    /\ Len(dataset) = MaxDataset
    /\ dataset[1] # dataset[2]
    /\ Len(metric_array) = Len(dataset)
    /\ last.key[2] = dataset[Len(dataset)]

\* calculate is stuck in the request for its second molecule
C30_WitnessStalled ==
    /\ pc = "sampling"
    /\ Len(metric_array) = 1
    /\ Len(dataset) = 2
    /\ inferrer_faults[dataset[2]] = "stalls"
====
